---- MODULE Spec2Model ----
(***************************************************************************)
(* Model of the farming game backend (src/index.js): the board of plots,   *)
(* the three mutating endpoints, the board query, the growth timers, the   *)
(* persisted document written through node-persist, and the start-up code  *)
(* that reloads the document and re-establishes the growth timers.         *)
(***************************************************************************)
EXTENDS Integers, Sequences, FiniteSets, TLC

\* ---------------------------------------------------------------- constants
ROWS == 4
COLS == 5
GROWTH_TIME_MS == 5000

\* ------------------------------------------------------------------- bounds
\* The clock advances at most MaxTicks times.
MaxTicks == 3
\* At most MaxWrites storage.setItem calls are in flight at once.
MaxWrites == 2

\* The clock moves in steps of half the growth time, so that a restart can
\* fall strictly inside a growth period and exactly on its end.
Tick == GROWTH_TIME_MS \div 2
\* Date.now() when the model starts: some positive epoch time.
Epoch == GROWTH_TIME_MS
LastTime == Epoch + MaxTicks * Tick

VARIABLES
    status,       \* "stopped" | "serving": whether the process runs and listens
    now,          \* Date.now()
    gameBoard,    \* the in-memory board; the empty array while no board is loaded
    timers,       \* the setTimeout timers pending in the running process
    disk,         \* the stored item 'gameBoard'; empty while nothing is stored
    writes,       \* storage.setItem calls in flight, oldest first
    lastEvent,    \* what the last step was and what it answered
    previousRun   \* the plot states the process had when it last exited

vars == <<status, now, gameBoard, timers, disk, writes, lastEvent, previousRun>>

\* ------------------------------------------------- JavaScript request values
\* A value of req.body.row / req.body.col. Numbers are kept in halves (v2 is
\* twice the value) so that a non-integer such as 1.5 can be sent.
Undefined == [t |-> "undefined", v2 |-> 0]
Null == [t |-> "null", v2 |-> 0]
Str == [t |-> "string", v2 |-> 0]
Num(n) == [t |-> "number", v2 |-> 2 * n]
Frac(h) == [t |-> "number", v2 |-> h]

\* ToNumber(v) is NaN for undefined and for a non-numeric string, 0 for null.
IsNaN(v) == v.t \in {"undefined", "string"}
ToNumber2(v) == IF v.t = "number" THEN v.v2 ELSE 0
\* v < n and v >= n as JavaScript evaluates them: false when v converts to NaN.
JsLt(v, n) == ~IsNaN(v) /\ ToNumber2(v) < 2 * n
JsGe(v, n) == ~IsNaN(v) /\ ToNumber2(v) >= 2 * n

\* The validation every mutating endpoint starts with.
InvalidCoordinates(row, col) ==
    \/ row = Undefined
    \/ col = Undefined
    \/ JsLt(row, 0)
    \/ JsGe(row, ROWS)
    \/ JsLt(col, 0)
    \/ JsGe(col, COLS)

\* gameBoard[row][col] is a plot only when both keys are array indices.
IsIndex(v, n) == v.t = "number" /\ v.v2 % 2 = 0 /\ (v.v2 \div 2) \in 0..(n - 1)
PlotExists(row, col) == IsIndex(row, ROWS) /\ IsIndex(col, COLS)
PlotAt(row, col) == <<row.v2 \div 2, col.v2 \div 2>>

\* The request bodies the model sends: one plot goes through its whole life,
\* the other bodies fail the validation or pass it without naming a plot.
CoordInputs ==
    { <<Num(0), Num(0)>>,
      <<Undefined, Num(0)>>, <<Num(0), Undefined>>,
      <<Num(0 - 1), Num(0)>>, <<Num(ROWS), Num(0)>>, <<Num(0), Num(COLS)>>,
      <<Null, Num(0)>>, <<Frac(3), Num(0)>>, <<Num(0), Str>> }

\* A second plot is only ever planted: its writes run beside the first plot's.
PlantInputs == CoordInputs \cup { <<Num(ROWS - 1), Num(COLS - 1)>> }

\* ------------------------------------------------------------------- plots
Plots == (0..(ROWS - 1)) \X (0..(COLS - 1))
States == {"empty", "planted", "watered", "ready"}

\* lastWateredTime: <<>> is null, <<t>> is the number t.
NoTime == <<>>
\* growthTimeout: <<>> is null or absent, <<timer>> is a Timeout object.
NoTimeout == <<>>
Truthy(x) == x # <<>> /\ x[1] # 0

EmptyBoard == [p \in {} |-> 0]
NoDocument == [p \in {} |-> 0]

EmptyPlot == [state |-> "empty", lastWateredTime |-> NoTime, growthTimeout |-> NoTimeout]

\* saveGameBoard's serializable copy: every plot without growthTimeout.
Serializable(board) ==
    [p \in DOMAIN board |->
        [state |-> board[p].state, lastWateredTime |-> board[p].lastWateredTime]]

\* A plot as JSON.parse gives it back: no growthTimeout property.
Parsed(stored) ==
    [state |-> stored.state, lastWateredTime |-> stored.lastWateredTime,
     growthTimeout |-> NoTimeout]

Event(ev, op, row, col, result, body) ==
    [ev |-> ev, op |-> op, row |-> row, col |-> col, result |-> result, body |-> body]

Internal(ev) == Event(ev, "none", Undefined, Undefined, "none", EmptyBoard)

NoWaiter == [kind |-> "none", op |-> "none", row |-> Undefined, col |-> Undefined]
TimerWaiter == [kind |-> "timer", op |-> "none", row |-> Undefined, col |-> Undefined]
RequestWaiter(op, row, col) == [kind |-> "request", op |-> op, row |-> row, col |-> col]

\* Mutant: the copy to write is taken of the board as it was when the
\* handler began, not of the board the handler has just changed.
SaveGameBoardStale(board, waiter) ==
    Append(writes, [doc |-> Serializable(gameBoard), waiter |-> waiter])

\* saveGameBoard up to its await: the copy is taken now, the write is queued.
SaveGameBoard(board, waiter) ==
    Append(writes, [doc |-> Serializable(board), waiter |-> waiter])

CanSave == Len(writes) < MaxWrites

\* ------------------------------------------------------------------- Init
Init ==
    /\ status = "stopped"
    /\ now = Epoch
    /\ gameBoard = EmptyBoard
    /\ timers = {}
    /\ disk = NoDocument
    /\ writes = <<>>
    /\ lastEvent = Internal("none")
    /\ previousRun = EmptyBoard

\* ---------------------------------------------------------------- start-up
\* Mutant: the comparison remainingGrowthTime > 0 written as >= 0.
RehydrateOffByOne(stored, p, t) ==
    IF stored.state = "watered" /\ Truthy(stored.lastWateredTime)
    THEN LET remainingGrowthTime == GROWTH_TIME_MS - (t - stored.lastWateredTime[1])
         IN  IF remainingGrowthTime >= 0
             THEN [state |-> "watered",
                   lastWateredTime |-> stored.lastWateredTime,
                   growthTimeout |-> <<[plot |-> p, due |-> t + remainingGrowthTime,
                                        kind |-> "rehydrate"]>>]
             ELSE [state |-> "ready",
                   lastWateredTime |-> stored.lastWateredTime,
                   growthTimeout |-> NoTimeout]
    ELSE Parsed(stored)

\* Mutant: the re-established timer runs for the full GROWTH_TIME_MS.
RehydrateFullDuration(stored, p, t) ==
    IF stored.state = "watered" /\ Truthy(stored.lastWateredTime)
    THEN LET remainingGrowthTime == GROWTH_TIME_MS - (t - stored.lastWateredTime[1])
         IN  IF remainingGrowthTime > 0
             THEN [state |-> "watered",
                   lastWateredTime |-> stored.lastWateredTime,
                   growthTimeout |-> <<[plot |-> p, due |-> t + GROWTH_TIME_MS,
                                        kind |-> "rehydrate"]>>]
             ELSE [state |-> "ready",
                   lastWateredTime |-> stored.lastWateredTime,
                   growthTimeout |-> NoTimeout]
    ELSE Parsed(stored)

\* Mutant: every stored Watered plot is made Ready on load, elapsed or not.
RehydrateAlwaysReady(stored, p, t) ==
    IF stored.state = "watered" /\ Truthy(stored.lastWateredTime)
    THEN [state |-> "ready",
          lastWateredTime |-> stored.lastWateredTime,
          growthTimeout |-> NoTimeout]
    ELSE Parsed(stored)

\* Mutant: the load leaves a plot that is still growing without a timer.
RehydrateNoTimer(stored, p, t) ==
    IF stored.state = "watered" /\ Truthy(stored.lastWateredTime)
    THEN LET remainingGrowthTime == GROWTH_TIME_MS - (t - stored.lastWateredTime[1])
         IN  IF remainingGrowthTime > 0
             THEN Parsed(stored)
             ELSE [state |-> "ready",
                   lastWateredTime |-> stored.lastWateredTime,
                   growthTimeout |-> NoTimeout]
    ELSE Parsed(stored)

\* Mutant: a stored Watered plot whose growth time has passed starts to
\* grow again on load instead of being Ready at once.
RehydrateRestartsGrowth(stored, p, t) ==
    IF stored.state = "watered" /\ Truthy(stored.lastWateredTime)
    THEN LET remainingGrowthTime == GROWTH_TIME_MS - (t - stored.lastWateredTime[1])
         IN  [state |-> "watered",
              lastWateredTime |-> stored.lastWateredTime,
              growthTimeout |-> <<[plot |-> p,
                                   due |-> IF remainingGrowthTime > 0
                                           THEN t + remainingGrowthTime
                                           ELSE t + GROWTH_TIME_MS,
                                   kind |-> "rehydrate"]>>]
    ELSE Parsed(stored)

\* One stored plot as the forEach of initStorageAndLoadGameState leaves it.
Rehydrate(stored, p, t) ==
    IF stored.state = "watered" /\ Truthy(stored.lastWateredTime)
    THEN LET timeElapsed == t - stored.lastWateredTime[1]
             remainingGrowthTime == GROWTH_TIME_MS - timeElapsed
         IN  IF remainingGrowthTime > 0
             THEN [state |-> "watered",
                   lastWateredTime |-> stored.lastWateredTime,
                   growthTimeout |-> <<[plot |-> p, due |-> t + remainingGrowthTime,
                                        kind |-> "rehydrate"]>>]
             ELSE [state |-> "ready",
                   lastWateredTime |-> stored.lastWateredTime,
                   growthTimeout |-> NoTimeout]
    ELSE Parsed(stored)

initializeNewGameBoard == [p \in Plots |-> EmptyPlot]

\* initStorageAndLoadGameState resolves and the server starts to listen.
Start ==
    /\ status = "stopped"
    /\ status' = "serving"
    /\ IF disk # NoDocument
       THEN /\ gameBoard' = [p \in DOMAIN disk |-> Rehydrate(disk[p], p, now)]
            /\ timers' = { gameBoard'[p].growthTimeout[1] :
                             p \in { q \in DOMAIN disk : gameBoard'[q].growthTimeout # NoTimeout } }
            /\ writes' = writes
       ELSE /\ gameBoard' = initializeNewGameBoard
            /\ timers' = {}
            /\ writes' = SaveGameBoard(initializeNewGameBoard, NoWaiter)
    /\ lastEvent' = Internal("initialize")
    /\ previousRun' = EmptyBoard
    /\ UNCHANGED <<now, disk>>

\* storage.init or storage.getItem rejects: the catch handler exits.
StartFails ==
    /\ status = "stopped"
    /\ lastEvent' = Internal("startFailed")
    /\ UNCHANGED <<status, now, gameBoard, timers, disk, writes, previousRun>>

\* The process exits or is killed: memory, timers and unfinished writes go.
Exit ==
    /\ status = "serving"
    /\ status' = "stopped"
    /\ previousRun' = [p \in DOMAIN gameBoard |-> gameBoard[p].state]
    /\ gameBoard' = EmptyBoard
    /\ timers' = {}
    /\ writes' = <<>>
    /\ lastEvent' = Internal("exit")
    /\ UNCHANGED <<now, disk>>

\* -------------------------------------------------------------- requests
\* clearTimeout(plot.growthTimeout) under `if (plot.growthTimeout)`.
Cleared(plot) == IF plot.growthTimeout # NoTimeout THEN {plot.growthTimeout[1]} ELSE {}

\* Mutant: the handler saves the board on its rejecting branches too.
AnswerAndSave(ev, op, row, col, result) ==
    /\ CanSave
    /\ lastEvent' = Event(ev, op, row, col, result, EmptyBoard)
    /\ writes' = SaveGameBoard(gameBoard, NoWaiter)
    /\ UNCHANGED <<status, now, gameBoard, timers, disk, previousRun>>

\* A 400 or a thrown error: nothing but the answer changes.
Answer(ev, op, row, col, result) ==
    /\ lastEvent' = Event(ev, op, row, col, result, EmptyBoard)
    /\ UNCHANGED <<status, now, gameBoard, timers, disk, writes, previousRun>>

\* Mutant: saveGameBoard is called before the plot is changed.
AcceptSaveFirst(op, row, col, p, plot, armed) ==
    /\ CanSave
    /\ gameBoard' = [gameBoard EXCEPT ![p] = plot]
    /\ timers' = (timers \ Cleared(gameBoard[p])) \cup armed
    /\ writes' = SaveGameBoard(gameBoard, RequestWaiter(op, row, col))
    /\ lastEvent' = Event("request", op, row, col, "awaiting save", EmptyBoard)
    /\ UNCHANGED <<status, now, disk, previousRun>>

\* The handler changed the plot at p and awaits saveGameBoard.
Accept(op, row, col, p, plot, armed) ==
    /\ CanSave
    /\ gameBoard' = [gameBoard EXCEPT ![p] = plot]
    /\ timers' = (timers \ Cleared(gameBoard[p])) \cup armed
    /\ writes' = SaveGameBoard(gameBoard', RequestWaiter(op, row, col))
    /\ lastEvent' = Event("request", op, row, col, "awaiting save", EmptyBoard)
    /\ UNCHANGED <<status, now, disk, previousRun>>

\* The branch of /api/plant taken for a plot: its answer, or "ok".
PlantOutcome(plot) ==
    IF plot.state = "empty" THEN "ok" ELSE "Plot is not empty."

PlantPlot(plot) ==
    [plot EXCEPT !.state = "planted", !.lastWateredTime = NoTime,
                 !.growthTimeout = NoTimeout]

Plant(row, col) ==
    /\ status = "serving"
    /\ IF InvalidCoordinates(row, col)
       THEN Answer("response", "plant", row, col, "Invalid plot coordinates.")
       ELSE IF ~PlotExists(row, col)
       THEN Answer("threw", "plant", row, col, "TypeError")
       ELSE LET p == PlotAt(row, col)
                plot == gameBoard[p]
            IN  IF PlantOutcome(plot) = "ok"
                THEN Accept("plant", row, col, p, PlantPlot(plot), {})
                ELSE Answer("response", "plant", row, col, PlantOutcome(plot))

\* The branch of /api/water taken for a plot.
WaterOutcome(plot) ==
    IF plot.state = "planted" THEN "ok"
    ELSE IF plot.state = "watered" \/ plot.state = "ready"
    THEN "Plant is already watered or ready."
    ELSE "Nothing to water here. Plant a seed first!"

\* Mutant: the timer of /api/water is set for twice the growth time.
WaterTimerLate(p, t) == [plot |-> p, due |-> t + 2 * GROWTH_TIME_MS, kind |-> "water"]

\* The timer /api/water sets: it fires GROWTH_TIME_MS after the watering.
WaterTimer(p, t) == [plot |-> p, due |-> t + GROWTH_TIME_MS, kind |-> "water"]

WaterPlot(plot, p, t) ==
    [plot EXCEPT !.state = "watered", !.lastWateredTime = <<t>>,
                 !.growthTimeout = <<WaterTimer(p, t)>>]

Water(row, col) ==
    /\ status = "serving"
    /\ IF InvalidCoordinates(row, col)
       THEN Answer("response", "water", row, col, "Invalid plot coordinates.")
       ELSE IF ~PlotExists(row, col)
       THEN Answer("threw", "water", row, col, "TypeError")
       ELSE LET p == PlotAt(row, col)
                plot == gameBoard[p]
                watered == WaterPlot(plot, p, now)
            IN  IF WaterOutcome(plot) = "ok"
                THEN Accept("water", row, col, p, watered, Cleared(watered))
                ELSE Answer("response", "water", row, col, WaterOutcome(plot))

\* Mutant: /api/harvest accepts a Watered plot as well as a Ready one.
HarvestOutcomeEager(plot) ==
    IF plot.state = "ready" \/ plot.state = "watered" THEN "ok"
    ELSE IF plot.state = "empty" THEN "Nothing to harvest here. Plot is empty!"
    ELSE "Plant is not ready to harvest yet."

\* The branch of /api/harvest taken for a plot.
HarvestOutcome(plot) ==
    IF plot.state = "ready" THEN "ok"
    ELSE IF plot.state = "empty" THEN "Nothing to harvest here. Plot is empty!"
    ELSE "Plant is not ready to harvest yet."

\* Mutant: the harvest leaves lastWateredTime as it was.
HarvestPlotKeepsTime(plot) ==
    [plot EXCEPT !.state = "empty", !.growthTimeout = NoTimeout]

HarvestPlot(plot) ==
    [plot EXCEPT !.state = "empty", !.lastWateredTime = NoTime,
                 !.growthTimeout = NoTimeout]

Harvest(row, col) ==
    /\ status = "serving"
    /\ IF InvalidCoordinates(row, col)
       THEN Answer("response", "harvest", row, col, "Invalid plot coordinates.")
       ELSE IF ~PlotExists(row, col)
       THEN Answer("threw", "harvest", row, col, "TypeError")
       ELSE LET p == PlotAt(row, col)
                plot == gameBoard[p]
            IN  IF HarvestOutcome(plot) = "ok"
                THEN Accept("harvest", row, col, p, HarvestPlot(plot), {})
                ELSE Answer("response", "harvest", row, col, HarvestOutcome(plot))

\* Mutant: the response holds the plots as they are, growthTimeout included.
ResponseBoardWithHandle(board) == [p \in DOMAIN board |-> board[p]]

\* GET /api/game-state: every plot with growthTimeout undefined, as JSON.
ResponseBoard(board) ==
    [p \in DOMAIN board |->
        [state |-> board[p].state, lastWateredTime |-> board[p].lastWateredTime]]

GetGameState ==
    /\ status = "serving"
    /\ lastEvent' = Event("response", "game-state", Undefined, Undefined, "ok",
                          ResponseBoard(gameBoard))
    /\ UNCHANGED <<status, now, gameBoard, timers, disk, writes, previousRun>>

\* ---------------------------------------------------------------- timers
\* What a growth timer's callback makes of a plot it finds watered.
GrowthComplete(kind, plot) ==
    IF kind = "water"
    THEN [plot EXCEPT !.state = "ready", !.growthTimeout = NoTimeout]
    ELSE [plot EXCEPT !.state = "ready"]

\* What a timer callback did, for the plot (row, col) its closure holds.
Fired(ev, p) == Event(ev, "timer", Num(p[1]), Num(p[2]), "none", EmptyBoard)

\* Mutant: the timer is a repeating one (setInterval): it stays pending
\* after its callback has run.
TimerFiresRepeats(t) ==
    /\ status = "serving"
    /\ t \in timers
    /\ now >= t.due
    /\ timers' = timers
    /\ IF gameBoard[t.plot].state = "watered"
       THEN /\ CanSave
            /\ gameBoard' = [gameBoard EXCEPT ![t.plot] = GrowthComplete(t.kind, @)]
            /\ writes' = SaveGameBoard(gameBoard', TimerWaiter)
            /\ lastEvent' = Fired("growthComplete", t.plot)
       ELSE /\ UNCHANGED <<gameBoard, writes>>
            /\ lastEvent' = Fired("timerIgnored", t.plot)
    /\ UNCHANGED <<status, now, disk, previousRun>>

\* A pending timer is due and its callback runs up to its await.
TimerFires(t) ==
    /\ status = "serving"
    /\ t \in timers
    /\ now >= t.due
    /\ timers' = timers \ {t}
    /\ IF gameBoard[t.plot].state = "watered"
       THEN /\ CanSave
            /\ gameBoard' = [gameBoard EXCEPT ![t.plot] = GrowthComplete(t.kind, @)]
            /\ writes' = SaveGameBoard(gameBoard', TimerWaiter)
            /\ lastEvent' = Fired("growthComplete", t.plot)
       ELSE /\ UNCHANGED <<gameBoard, writes>>
            /\ lastEvent' = Fired("timerIgnored", t.plot)
    /\ UNCHANGED <<status, now, disk, previousRun>>

\* ----------------------------------------------------------- persistence
\* What the handler awaiting a write does when the write has resolved.
Continuation(waiter) ==
    IF waiter.kind = "request"
    THEN Event("response", waiter.op, waiter.row, waiter.col, "success", EmptyBoard)
    ELSE Internal("saved")

\* The oldest storage.setItem in flight writes its document and resolves.
CompleteWrite ==
    /\ writes # <<>>
    /\ disk' = Head(writes).doc
    /\ writes' = Tail(writes)
    /\ lastEvent' = Continuation(Head(writes).waiter)
    /\ UNCHANGED <<status, now, gameBoard, timers, previousRun>>

\* The rejection of a write, as the call that made it sees it: a handler or
\* timer callback awaiting it throws, the call of initializeNewGameBoard,
\* which does not await it, leaves the rejected promise unhandled.
Rejection(waiter) ==
    Event("writeFailed", waiter.op, waiter.row, waiter.col, waiter.kind, EmptyBoard)

\* The oldest storage.setItem in flight rejects: its awaiter throws.
FailWrite ==
    /\ writes # <<>>
    /\ writes' = Tail(writes)
    /\ lastEvent' = Rejection(Head(writes).waiter)
    /\ UNCHANGED <<status, now, gameBoard, timers, disk, previousRun>>

\* ------------------------------------------------------------------ clock
\* Time passes. A running process runs the callbacks of due timers first.
TimePasses ==
    /\ now < LastTime
    /\ status = "serving" => \A t \in timers : t.due > now
    /\ now' = now + Tick
    /\ lastEvent' = Internal("tick")
    /\ UNCHANGED <<status, gameBoard, timers, disk, writes, previousRun>>

Next ==
    \/ Start
    \/ StartFails
    \/ Exit
    \/ \E c \in PlantInputs : Plant(c[1], c[2])
    \/ \E c \in CoordInputs : Water(c[1], c[2])
    \/ \E c \in CoordInputs : Harvest(c[1], c[2])
    \/ GetGameState
    \/ \E t \in timers : TimerFires(t)
    \/ CompleteWrite
    \/ FailWrite
    \/ TimePasses

Spec == Init /\ [][Next]_vars

\* The scheduling the liveness of growth rests on: the clock goes on, the
\* event loop runs the callback of a timer that is due, and a write in
\* flight ends.
GrowthInputs == { c \in CoordInputs : PlotExists(c[1], c[2]) }

\* The steps of Next with the request bodies that name a plot: the bodies
\* that are rejected or throw change nothing a plot's growth depends on.
GrowthNext ==
    \/ Start
    \/ StartFails
    \/ Exit
    \/ \E c \in GrowthInputs : Plant(c[1], c[2])
    \/ \E c \in GrowthInputs : Water(c[1], c[2])
    \/ \E c \in GrowthInputs : Harvest(c[1], c[2])
    \/ GetGameState
    \/ \E t \in timers : TimerFires(t)
    \/ CompleteWrite
    \/ FailWrite
    \/ TimePasses

FairSpec ==
    /\ Init
    /\ [][GrowthNext]_vars
    /\ WF_vars(TimePasses)
    /\ SF_vars(\E t \in timers : TimerFires(t))
    /\ WF_vars(CompleteWrite)

\* ================================================================ claims
Running == status = "serving"
Mutating == {"plant", "water", "harvest"}
StatesValid(board) == \A p \in DOMAIN board : board[p].state \in States

\* A plot goes from state a to state b in a step that records event e: either
\* nothing changed or the step is the one edge of the life cycle that allows it.
EdgeBy(a, b, e) ==
    \/ a = b
    \/ a = "empty" /\ b = "planted" /\ e.op = "plant"
    \/ a = "planted" /\ b = "watered" /\ e.op = "water"
    \/ a = "watered" /\ b = "ready" /\ e.ev \in {"growthComplete", "initialize"}
    \/ a = "ready" /\ b = "empty" /\ e.op = "harvest"

Restarted == status = "stopped" /\ status' = "serving"

\* C1 as claimed: every plot state is one of the four, and every change of a
\* plot's state follows one of the four edges, while the process runs and
\* also from the state a plot had when the process exited to the state it
\* has after the restart.
C1_Original ==
    [][ /\ StatesValid(gameBoard')
        /\ (Running /\ status' = "serving") =>
              \A p \in Plots : EdgeBy(gameBoard[p].state, gameBoard'[p].state, lastEvent')
        /\ (Restarted /\ previousRun # EmptyBoard) =>
              \A p \in Plots : EdgeBy(previousRun[p], gameBoard'[p].state, lastEvent')
      ]_vars

\* C1 amended: every plot state is one of the four; while the process runs
\* every change follows one of the four edges; a restart gives every plot its
\* persisted state (all Empty when nothing is persisted), with the edge
\* Watered->Ready taken on load.
C1_Edges ==
    [][ /\ StatesValid(gameBoard')
        /\ (Running /\ status' = "serving") =>
              \A p \in Plots : EdgeBy(gameBoard[p].state, gameBoard'[p].state, lastEvent')
        /\ (Restarted /\ disk # NoDocument) =>
              \A p \in Plots :
                 /\ EdgeBy(disk[p].state, gameBoard'[p].state, lastEvent')
                 /\ gameBoard'[p].state \in {disk[p].state, "ready"}
        /\ (Restarted /\ disk = NoDocument) =>
              \A p \in Plots : gameBoard'[p].state = "empty"
      ]_vars

\* A restart has just turned a plot stored as Watered into Ready: the plot
\* was planted and watered by requests and completed its growth on load.
C1_Witness ==
    /\ lastEvent.ev = "initialize"
    /\ \E p \in DOMAIN gameBoard :
          /\ p \in DOMAIN disk
          /\ disk[p].state = "watered"
          /\ gameBoard[p].state = "ready"

\* C2 as claimed: a plot that is Empty, Planted or Ready has a null
\* lastWateredTime.
C2_Original ==
    \A p \in DOMAIN gameBoard :
        gameBoard[p].state \in {"empty", "planted", "ready"} =>
            gameBoard[p].lastWateredTime = NoTime

\* C2 amended: a plot that is Empty or Planted has a null lastWateredTime; a
\* Watered plot and a Ready plot (by timer or on load) have the time of the
\* watering, which is cleared only by the harvest.
C2_WateredTime ==
    \A p \in DOMAIN gameBoard :
        /\ gameBoard[p].state \in {"empty", "planted"} =>
              gameBoard[p].lastWateredTime = NoTime
        /\ gameBoard[p].state \in {"watered", "ready"} =>
              gameBoard[p].lastWateredTime # NoTime

\* A growth timer has just made a plot Ready, and the plot still has the time
\* of its watering.
C2_Witness ==
    /\ lastEvent.ev = "growthComplete"
    /\ \E p \in DOMAIN gameBoard :
          gameBoard[p].state = "ready" /\ gameBoard[p].lastWateredTime # NoTime

\* C3 as claimed: in a running process a plot's growthTimeout is non-null
\* exactly when the plot is Watered (its growth not yet completed).
C3_TimerHandle ==
    Running =>
        \A p \in DOMAIN gameBoard :
            gameBoard[p].growthTimeout # NoTimeout <=> gameBoard[p].state = "watered"

\* C4: a request answered with a rejection for the plot's state changes no
\* plot, no timer, no write in flight and not the persisted document.
IllegalAnswers ==
    { "Plot is not empty.", "Plant is already watered or ready.",
      "Nothing to water here. Plant a seed first!",
      "Nothing to harvest here. Plot is empty!", "Plant is not ready to harvest yet." }

C4_RejectionChangesNothing ==
    [][ lastEvent'.result \in IllegalAnswers =>
            UNCHANGED <<gameBoard, timers, disk, writes, status>> ]_vars

\* A second plant on a plot that is still Planted was rejected.
C4_Witness ==
    /\ lastEvent.op = "plant"
    /\ lastEvent.result = "Plot is not empty."
    /\ gameBoard[PlotAt(lastEvent.row, lastEvent.col)].state = "planted"

\* C5 as claimed: a mutating request whose row and col do not name a plot of
\* the board is answered 'Invalid plot coordinates.'; the handler never goes
\* on to index the board with them.
C5_InvalidCoordinates ==
    (lastEvent.op \in Mutating /\ ~PlotExists(lastEvent.row, lastEvent.col)) =>
        lastEvent.result = "Invalid plot coordinates."

\* C6: when initialize has loaded a document, every plot stored as Watered
\* with now - lastWateredTime >= GROWTH_TIME_MS is Ready and has no timer.
C6_ReadyOnLoad ==
    (lastEvent.ev = "initialize" /\ disk # NoDocument) =>
        \A p \in DOMAIN disk :
            ( /\ disk[p].state = "watered"
              /\ disk[p].lastWateredTime # NoTime
              /\ now - disk[p].lastWateredTime[1] >= GROWTH_TIME_MS ) =>
                /\ gameBoard[p].state = "ready"
                /\ gameBoard[p].growthTimeout = NoTimeout
                /\ \A t \in timers : t.plot # p

\* The boundary: the restart came exactly GROWTH_TIME_MS after the watering.
C6_Witness ==
    /\ lastEvent.ev = "initialize"
    /\ \E p \in DOMAIN disk :
          /\ disk[p].state = "watered"
          /\ now - disk[p].lastWateredTime[1] = GROWTH_TIME_MS
          /\ gameBoard[p].state = "ready"
          /\ timers = {}

\* C7: initialize arms, for a plot stored as Watered with elapsed time below
\* GROWTH_TIME_MS, a timer for exactly GROWTH_TIME_MS - elapsed; every timer
\* re-established so is due at lastWateredTime + GROWTH_TIME_MS; and in a
\* running process a plot is Watered up to that time and Ready from it on,
\* whatever the number of restarts.
C7_ContinuousGrowth ==
    /\ (lastEvent.ev = "initialize" /\ disk # NoDocument) =>
          \A p \in DOMAIN disk :
              ( /\ disk[p].state = "watered"
                /\ disk[p].lastWateredTime # NoTime
                /\ now - disk[p].lastWateredTime[1] < GROWTH_TIME_MS ) =>
                  /\ gameBoard[p].state = "watered"
                  /\ gameBoard[p].growthTimeout # NoTimeout
                  /\ gameBoard[p].growthTimeout[1] \in timers
                  /\ gameBoard[p].growthTimeout[1].due - now =
                         GROWTH_TIME_MS - (now - disk[p].lastWateredTime[1])
    /\ \A t \in timers :
          t.kind = "rehydrate" =>
              /\ gameBoard[t.plot].state = "watered"
              /\ t.due = gameBoard[t.plot].lastWateredTime[1] + GROWTH_TIME_MS
    /\ Running =>
          \A p \in DOMAIN gameBoard :
              /\ (gameBoard[p].state = "watered" /\ gameBoard[p].growthTimeout # NoTimeout
                    /\ gameBoard[p].growthTimeout[1].kind = "rehydrate") =>
                     now <= gameBoard[p].lastWateredTime[1] + GROWTH_TIME_MS
              /\ gameBoard[p].state = "ready" =>
                     now >= gameBoard[p].lastWateredTime[1] + GROWTH_TIME_MS

\* A re-established timer has just fired, at lastWateredTime + GROWTH_TIME_MS,
\* in a process that started after the watering.
C7_Witness ==
    /\ lastEvent.ev = "growthComplete"
    /\ \E p \in DOMAIN gameBoard :
          /\ gameBoard[p].state = "ready"
          /\ gameBoard[p].growthTimeout # NoTimeout
          /\ gameBoard[p].growthTimeout[1].kind = "rehydrate"
          /\ gameBoard[p].growthTimeout[1].due > now - Tick
          /\ now = gameBoard[p].lastWateredTime[1] + GROWTH_TIME_MS

\* C8: a board query made more than GROWTH_TIME_MS after a plot's watering,
\* the process having run since, does not show the plot Watered: the timer
\* has made it Ready (no request takes a plot out of Watered).
C8_ReadyWithoutRequest ==
    /\ lastEvent.op = "game-state" =>
          \A p \in DOMAIN lastEvent.body :
              lastEvent.body[p].state = "watered" =>
                  now <= lastEvent.body[p].lastWateredTime[1] + GROWTH_TIME_MS
    /\ Running =>
          \A p \in DOMAIN gameBoard :
              gameBoard[p].state = "watered" =>
                  \E t \in timers :
                      t.plot = p /\ t.due <= gameBoard[p].lastWateredTime[1] + GROWTH_TIME_MS

\* A query shows a plot Ready that the timer set by /api/water made Ready,
\* and the Ready state is persisted by the timer's own save.
C8_Witness ==
    /\ lastEvent.op = "game-state"
    /\ \E p \in DOMAIN lastEvent.body :
          /\ lastEvent.body[p].state = "ready"
          /\ gameBoard[p].growthTimeout = NoTimeout
          /\ p \in DOMAIN disk
          /\ disk[p].state = "ready"
          /\ now = lastEvent.body[p].lastWateredTime[1] + GROWTH_TIME_MS

\* C9: a harvest of a Watered plot is answered 'not ready yet' and changes
\* nothing (the plot stays Watered with its lastWateredTime); a harvest is
\* accepted only at or after lastWateredTime + GROWTH_TIME_MS.
HarvestStep == lastEvent'.op = "harvest" /\ lastEvent'.ev \in {"request", "response"}
                   /\ lastEvent'.result # "success"

C9_NoEarlyHarvest ==
    [][ (HarvestStep /\ PlotExists(lastEvent'.row, lastEvent'.col)) =>
          LET p == PlotAt(lastEvent'.row, lastEvent'.col)
              plot == gameBoard[p]
          IN  /\ plot.state = "watered" =>
                    /\ lastEvent'.result = "Plant is not ready to harvest yet."
                    /\ gameBoard' = gameBoard
                    /\ timers' = timers
              /\ (plot.lastWateredTime # NoTime
                    /\ now < plot.lastWateredTime[1] + GROWTH_TIME_MS) =>
                    /\ plot.state = "watered"
                    /\ lastEvent'.result # "awaiting save"
              /\ lastEvent'.result = "awaiting save" =>
                    /\ plot.lastWateredTime # NoTime
                    /\ now >= plot.lastWateredTime[1] + GROWTH_TIME_MS
      ]_vars

\* A harvest was rejected as not ready on a plot watered less than
\* GROWTH_TIME_MS ago, and the plot is Watered.
C9_Witness ==
    /\ lastEvent.op = "harvest"
    /\ lastEvent.result = "Plant is not ready to harvest yet."
    /\ LET plot == gameBoard[PlotAt(lastEvent.row, lastEvent.col)]
       IN  plot.state = "watered" /\ now < plot.lastWateredTime[1] + GROWTH_TIME_MS

\* C10: when a plant, water or harvest request is answered with success, the
\* persisted document has the plot in the state the request gave it.
TargetState(op) ==
    IF op = "plant" THEN "planted" ELSE IF op = "water" THEN "watered" ELSE "empty"

C10_DurableOnSuccess ==
    (lastEvent.ev = "response" /\ lastEvent.result = "success") =>
        /\ disk # NoDocument
        /\ LET p == PlotAt(lastEvent.row, lastEvent.col)
           IN  /\ disk[p].state = TargetState(lastEvent.op)
               /\ (lastEvent.op = "water") <=> (disk[p].lastWateredTime # NoTime)

\* A success was answered while a write started later by another handler or
\* timer callback was still in flight.
C10_Witness ==
    /\ lastEvent.ev = "response"
    /\ lastEvent.result = "success"
    /\ writes # <<>>

\* C11 as claimed: when initialize finds no persisted document it builds the
\* ROWS x COLS board with every plot Empty and lastWateredTime null, and the
\* persisted document exists once initialize has completed, so before any
\* request is served.
C11_FreshBoardPersisted ==
    /\ (lastEvent.ev = "initialize" /\ writes # <<>>) =>
          /\ DOMAIN gameBoard = Plots
          /\ \A p \in Plots :
                gameBoard[p].state = "empty" /\ gameBoard[p].lastWateredTime = NoTime
    /\ Running => disk # NoDocument

\* C12 as claimed: a persistence operation of the start-up that fails aborts
\* the start-up. storage.init or storage.getItem failing leaves the process
\* stopped, and so does the failing initial save of a fresh board.
C12_StartupFailureAborts ==
    /\ lastEvent.ev = "startFailed" => status = "stopped"
    /\ (lastEvent.ev = "writeFailed" /\ lastEvent.result = "none") => status = "stopped"

\* C13: a board query changes no plot, no timer, no write in flight and not
\* the persisted document, and its answer has, for every plot of the board,
\* exactly the plot's state and lastWateredTime and no timer handle.
C13_QueryIsReadOnly ==
    [][ lastEvent'.op = "game-state" =>
          /\ UNCHANGED <<gameBoard, timers, disk, writes, status, now>>
          /\ DOMAIN lastEvent'.body = DOMAIN gameBoard
          /\ \A p \in DOMAIN gameBoard :
                /\ DOMAIN lastEvent'.body[p] = {"state", "lastWateredTime"}
                /\ lastEvent'.body[p].state = gameBoard[p].state
                /\ lastEvent'.body[p].lastWateredTime = gameBoard[p].lastWateredTime
      ]_vars

\* A query was answered while a plot was Watered with its timer pending.
C13_Witness ==
    /\ lastEvent.op = "game-state"
    /\ \E p \in DOMAIN gameBoard :
          /\ gameBoard[p].growthTimeout # NoTimeout
          /\ gameBoard[p].growthTimeout[1] \in timers
          /\ lastEvent.body[p].state = "watered"

\* A step in which a request handler or a timer callback begins (and runs up
\* to its first await or to its answer).
HandlerBegins ==
    \/ lastEvent'.ev \in {"request", "threw", "growthComplete", "timerIgnored"}
    \/ lastEvent'.ev = "response" /\ lastEvent'.result # "success"

\* C14 as claimed: no request handler and no timer callback begins while the
\* write of another handler or timer callback is still in flight.
C14_Original ==
    [][ HandlerBegins =>
          \A i \in 1..Len(writes) : writes[i].waiter.kind = "none" ]_vars

\* C14 amended: a handler or timer callback changes the plot and takes the
\* copy to write in one piece, so that whatever begins while writes are in
\* flight sees the board exactly as the newest write in flight holds it; the
\* writes themselves are awaited and other handlers and callbacks do begin
\* before they have completed.
C14_NoPartialMutation ==
    (Running /\ writes # <<>>) =>
        writes[Len(writes)].doc = Serializable(gameBoard)

\* A request handler has begun and changed the board while the write of an
\* earlier request was still in flight.
C14_Witness ==
    /\ lastEvent.ev = "request"
    /\ Len(writes) >= 2
    /\ writes[1].waiter.kind = "request"
    /\ writes[1].doc # writes[2].doc

TimersOf(p) == { t \in timers : t.plot = p }

C16_EveryTimerFindsWatered ==
    \A t \in timers : gameBoard[t.plot].state = "watered"

\* C17 as claimed, for the case it names: right after initialize has loaded
\* the document, with no write in flight, the persisted document is the
\* board with the timer handles stripped.
C17_PersistedIsBoard ==
    (lastEvent.ev = "initialize" /\ writes = <<>>) =>
        disk = Serializable(gameBoard)

\* The plots the requests of the model can water.
WaterablePlots == { PlotAt(c[1], c[2]) : c \in GrowthInputs }

\* C18: in a running process every Watered plot has a pending growth timer,
\* and a plot that is Watered in a running process becomes Ready unless the
\* process exits first (the clock of the model ends at LastTime, so this is
\* stated for growth that ends by then).
C18_WateredBecomesReady ==
    /\ [](Running => \A p \in Plots :
             gameBoard[p].state = "watered" => TimersOf(p) # {})
    /\ \A p \in WaterablePlots :
          ( /\ Running
            /\ gameBoard[p].state = "watered"
            /\ gameBoard[p].lastWateredTime[1] + GROWTH_TIME_MS <= LastTime )
          ~> (~Running \/ gameBoard[p].state = "ready")

\* A plot was watered, the process exited while the write of the watering
\* was in flight or done, and after the restart the plot is Watered with a
\* re-established timer that is not yet due.
C18_Witness ==
    /\ lastEvent.ev = "initialize"
    /\ \E p \in DOMAIN gameBoard :
          /\ gameBoard[p].state = "watered"
          /\ \E t \in TimersOf(p) : t.kind = "rehydrate" /\ t.due > now

\* C19 as claimed: a plot that was Ready when the process exited is Ready
\* after the restart, whatever the persisted document holds.
C19_Original ==
    [][ (Restarted /\ previousRun # EmptyBoard) =>
          \A p \in Plots :
              previousRun[p] = "ready" => gameBoard'[p].state = "ready" ]_vars

\* C19 amended: a plot that was Ready when the process exited is Ready after
\* the restart if the persisted document holds it as Watered or as Ready,
\* that is, if at least its watering was written; the Ready state itself
\* need not have been written.
C19_ReadySurvivesRestart ==
    [][ (Restarted /\ previousRun # EmptyBoard /\ disk # NoDocument) =>
          \A p \in Plots :
              (previousRun[p] = "ready" /\ disk[p].state \in {"watered", "ready"}) =>
                  gameBoard'[p].state = "ready" ]_vars

\* After a restart a plot is Ready whose Ready state was never written: the
\* document holds it as Watered, and its growth time ended before the
\* restart.
C19_Witness ==
    /\ lastEvent.ev = "initialize"
    /\ \E p \in DOMAIN disk :
          /\ disk[p].state = "watered"
          /\ now > disk[p].lastWateredTime[1] + GROWTH_TIME_MS
          /\ gameBoard[p].state = "ready"
====
